---------------------------- MODULE Spec2Model ----------------------------
(***************************************************************************)
(* A model of the soft-MMU of src/src/mmu.rs: the guest memory buffer, its *)
(* parallel permission buffer, the bump allocator, the permission-checked  *)
(* read/write path and the dirty-block fork/reset mechanism.               *)
(*                                                                         *)
(* Representation.  A Vec<u8> / Vec<Perm> of fixed length is a total       *)
(* function from 0..len-1 to bytes.  It is stored run-length compressed    *)
(* ([len, runs], runs a set of <<lo, hi, v>> for the maximal ranges        *)
(* [lo, hi) that hold the non-zero value v) so that the program's own      *)
(* constants (4096-byte blocks, 128-bit bitmap words) can be kept.  Every  *)
(* operation is stated pointwise on At(buf, i); Pack only re-compresses.   *)
(*                                                                         *)
(* A usize is a machine word.  The model's integers stand for themselves   *)
(* when non-negative; a negative integer -k stands for 2^w - k, so that -1 *)
(* is usize::MAX.  Checked addition, wrapping addition, masking and the    *)
(* unsigned order are exact on these values for every word width w.        *)
(***************************************************************************)
EXTENDS Integers, Sequences, FiniteSets, TLC

\* ------------------------------------------------------------ constants
ALIGNMENT == 15
DIRTY_BLOCK_SIZE == 4096
DBE_BITS == 128
PERM_WRITE == 1
PERM_READ == 2
PERM_EXEC == 4

\* ---------------------------------------------------------------- bounds
\* The number of API calls made after construction.
MaxOps == 4

\* ---------------------------------------------------------- usize, Perm
\* usize::checked_add(a, b) is Some(a + b) unless the sum leaves the word.
CheckedAddOk(a, b) ==
    IF a >= 0 /\ b >= 0 THEN TRUE
    ELSE IF a < 0 /\ b < 0 THEN FALSE
    ELSE a + b < 0

\* The unsigned order on words.
ULt(a, b) == IF (a < 0) = (b < 0) THEN a < b ELSE b < 0

ULe(a, b) == a = b \/ ULt(a, b)

\* x & !mask for a mask of the form 2^k - 1.
AndNot(x, mask) == x - (x % (mask + 1))

\* (p.0 & bit) != 0 and p.0 | bit on a permission byte; bit is a power of two.
HasPerm(p, bit) == (p \div bit) % 2 = 1

OrPerm(p, bit) == IF HasPerm(p, bit) THEN p ELSE p + bit

\* ------------------------------------------------------------- buffers
\* buf[i]
At(buf, i) ==
    IF \E r \in buf.runs : r[1] <= i /\ i < r[2]
    THEN (CHOOSE r \in buf.runs : r[1] <= i /\ i < r[2])[3]
    ELSE 0

\* The positions at which buf may change value.
Breaks(buf) == {r[1] : r \in buf.runs} \cup {r[2] : r \in buf.runs}

\* The positions at which Pack looks at the elements: the positions of P in
\* the buffer, and each one's predecessor.
Sample(len, P) ==
    LET Q == {p \in P \cup {0} : 0 <= p /\ p < len}
    IN  Q \cup {p - 1 : p \in Q \ {0}}

\* The buffer of length len whose i-th element is val[i], for elements that
\* are constant between consecutive positions of P; val is given on
\* Sample(len, P).
Pack(len, P, val) ==
    LET Q      == {p \in P : 0 <= p /\ p < len} \cup {0, len}
        starts == {p \in Q : /\ p < len
                             /\ val[p] # 0
                             /\ (p = 0 \/ val[p - 1] # val[p])}
        ends(p) == {q \in Q : q > p /\ (q = len \/ val[q] # val[p])}
        end(p) == LET E == ends(p) IN CHOOSE q \in E : \A q2 \in E : q <= q2
    IN  [len |-> len, runs |-> {<<p, end(p), val[p]>> : p \in starts}]

\* vec![v; len]
Filled(len, v) ==
    [len |-> len, runs |-> IF v = 0 \/ len = 0 THEN {} ELSE {<<0, len, v>>}]

\* slice.get(from..to) is Some exactly for from <= to <= len.
InRange(buf, from, to) == ULe(from, to) /\ ULe(to, buf.len)

\* buf[from..to].fill(v)
FillRange(buf, from, to, v) ==
    LET P == Breaks(buf) \cup {from, to}
    IN  Pack(buf.len, P,
             [i \in Sample(buf.len, P) |->
                 IF from <= i /\ i < to THEN v ELSE At(buf, i)])

\* dst[from..to].copy_from_slice(&src[from..to])
CopyRange(dst, src, from, to) ==
    LET P == Breaks(dst) \cup Breaks(src) \cup {from, to}
    IN  Pack(dst.len, P,
             [i \in Sample(dst.len, P) |->
                 IF from <= i /\ i < to THEN At(src, i) ELSE At(dst, i)])

\* dst[from..from+len(bytes)].copy_from_slice(bytes)
CopyBytes(dst, from, bytes) ==
    LET to == from + Len(bytes)
        P  == Breaks(dst) \cup (from..to)
    IN  Pack(dst.len, P,
             [i \in Sample(dst.len, P) |->
                 IF from <= i /\ i < to THEN bytes[i - from + 1]
                 ELSE At(dst, i)])

\* ------------------------------------------------------------------ Mmu
\* align(num): the addition overflows for num > usize::MAX - 15.
alignOverflows(num) == ~CheckedAddOk(num, ALIGNMENT)

align(num) == AndNot(num + ALIGNMENT, ALIGNMENT)

\* newPanics, were the requested size compared and not the aligned one.
newPanics_rawSize(size) == size < DIRTY_BLOCK_SIZE

\* Mmu::new(size) panics when the aligned size is below one dirty block.
newPanics(size) == AndNot(size + ALIGNMENT, ALIGNMENT) < DIRTY_BLOCK_SIZE

new(size) ==
    LET dirty_bm_size == (size \div DIRTY_BLOCK_SIZE) \div DBE_BITS + 1
        aligned_size  == AndNot(size + ALIGNMENT, ALIGNMENT)
    IN  [memory        |-> Filled(aligned_size, 0),
         permissions   |-> Filled(aligned_size, 0),
         dirty_indexes |-> <<>>,
         dirty_bitmap  |-> [w \in 1..dirty_bm_size |-> {}],
         alloc_base    |-> 0]

\* fork, were the dirty log carried over to the copy.
fork_keepsLog(self) ==
    [memory        |-> self.memory,
     permissions   |-> self.permissions,
     dirty_indexes |-> self.dirty_indexes,
     dirty_bitmap  |-> self.dirty_bitmap,
     alloc_base    |-> self.alloc_base]

\* self.fork()
fork(self) ==
    [memory        |-> self.memory,
     permissions   |-> self.permissions,
     dirty_indexes |-> <<>>,
     dirty_bitmap  |-> [w \in 1..Len(self.dirty_bitmap) |-> {}],
     alloc_base    |-> self.alloc_base]


\* resetBlock, were the bitmap word of the block left as it is.
resetBlock_keepsBit(self, other, dirty_idx) ==
    LET from == dirty_idx * DIRTY_BLOCK_SIZE
        to   == (dirty_idx + 1) * DIRTY_BLOCK_SIZE
    IN  IF ~(/\ InRange(self.memory, from, to)
             /\ InRange(other.memory, from, to)
             /\ InRange(self.permissions, from, to)
             /\ InRange(other.permissions, from, to))
        THEN [m |-> self, panicked |-> TRUE]
        ELSE [m |-> [self EXCEPT
                       !.memory = CopyRange(@, other.memory, from, to),
                       !.permissions = CopyRange(@, other.permissions, from, to)],
              panicked |-> FALSE]

\* One iteration of reset's loop, for the logged block dirty_idx.  A slice
\* whose end lies beyond either buffer panics; the bitmap word has been
\* cleared by then.
resetBlock(self, other, dirty_idx) ==
    LET from == dirty_idx * DIRTY_BLOCK_SIZE
        to   == (dirty_idx + 1) * DIRTY_BLOCK_SIZE
        word == dirty_idx \div DBE_BITS
    IN  IF word >= Len(self.dirty_bitmap)
        THEN [m |-> self, panicked |-> TRUE]
        ELSE
        LET s1 == [self EXCEPT !.dirty_bitmap[word + 1] = {}]
        IN  IF ~(InRange(s1.memory, from, to) /\ InRange(other.memory, from, to))
            THEN [m |-> s1, panicked |-> TRUE]
            ELSE
            LET s2 == [s1 EXCEPT !.memory = CopyRange(@, other.memory, from, to)]
            IN  IF ~(/\ InRange(s2.permissions, from, to)
                     /\ InRange(other.permissions, from, to))
                THEN [m |-> s2, panicked |-> TRUE]
                ELSE [m |-> [s2 EXCEPT !.permissions =
                                 CopyRange(@, other.permissions, from, to)],
                      panicked |-> FALSE]

\* reset's loop from the k-th entry of the log on.
RECURSIVE resetFrom(_, _, _, _)
resetFrom(self, other, log, k) ==
    IF k > Len(log)
    THEN [m |-> self, panicked |-> FALSE]
    ELSE LET r == resetBlock(self, other, log[k])
         IN  IF r.panicked THEN r ELSE resetFrom(r.m, other, log, k + 1)

\* reset, were the allocation base restored with the blocks.
reset_withCursor(self, other) ==
    LET r == resetFrom(self, other, self.dirty_indexes, 1)
    IN  IF r.panicked THEN r
        ELSE [m |-> [r.m EXCEPT !.dirty_indexes = <<>>,
                                !.alloc_base = other.alloc_base],
              panicked |-> FALSE]

\* self.reset(&other)
reset(self, other) ==
    LET r == resetFrom(self, other, self.dirty_indexes, 1)
    IN  IF r.panicked THEN r
        ELSE [m |-> [r.m EXCEPT !.dirty_indexes = <<>>], panicked |-> FALSE]

\* set_permissions, were perm added to the permissions of each byte.
set_permissions_merged(self, addr, size, perm) ==
    IF ~CheckedAddOk(addr, size) \/ ~InRange(self.permissions, addr, addr + size)
    THEN [m |-> self, ok |-> FALSE]
    ELSE LET P == Breaks(self.permissions) \cup {addr, addr + size}
         IN  [m |-> [self EXCEPT !.permissions =
                        Pack(@.len, P,
                             [i \in Sample(@.len, P) |->
                                 IF addr <= i /\ i < addr + size
                                 THEN LET w == IF HasPerm(perm, PERM_WRITE)
                                               THEN OrPerm(At(@, i), PERM_WRITE)
                                               ELSE At(@, i)
                                          x == IF HasPerm(perm, PERM_READ)
                                               THEN OrPerm(w, PERM_READ) ELSE w
                                      IN  IF HasPerm(perm, PERM_EXEC)
                                          THEN OrPerm(x, PERM_EXEC) ELSE x
                                 ELSE At(@, i)])],
              ok |-> TRUE]

\* self.set_permissions(addr, size, perm): [m, ok]
set_permissions(self, addr, size, perm) ==
    IF ~CheckedAddOk(addr, size) \/ ~InRange(self.permissions, addr, addr + size)
    THEN [m |-> self, ok |-> FALSE]
    ELSE [m |-> [self EXCEPT !.permissions = FillRange(@, addr, addr + size, perm)],
          ok |-> TRUE]

\* allocPerm, were a fresh allocation readable at once.
allocPerm_readable == PERM_WRITE + PERM_READ

\* The permission a fresh allocation gets.
allocPerm == PERM_WRITE

\* nextAllocBase, were the base left where it was.
nextAllocBase_stuck(cur_base, next_base) == cur_base

\* nextAllocBase, were the aligned size taken for the new base.
nextAllocBase_fromZero(cur_base, next_base) == next_base - cur_base

\* The allocation base after an allocation that ends at next_base.
nextAllocBase(cur_base, next_base) == next_base

\* self.allocate(size): [m, ok, ret, panicked].  overflow_checks is the
\* build's setting: with it align's addition panics on overflow, without it
\* the addition wraps.
allocate(self, size, overflow_checks) ==
    LET cur_base == self.alloc_base
        fail     == [m |-> self, ok |-> FALSE, ret |-> 0, panicked |-> FALSE]
    IN  IF alignOverflows(size) /\ overflow_checks
        THEN [m |-> self, ok |-> FALSE, ret |-> 0, panicked |-> TRUE]
        ELSE IF ~CheckedAddOk(cur_base, align(size)) THEN fail
        ELSE
        LET next_base == cur_base + align(size)
        IN  IF ULt(self.memory.len, next_base) THEN fail
            ELSE
            LET sp == set_permissions(self, cur_base, size, allocPerm)
            IN  IF ~sp.ok THEN fail
                ELSE [m |-> [sp.m EXCEPT !.alloc_base =
                                  nextAllocBase(cur_base, next_base)],
                      ok |-> TRUE, ret |-> cur_base, panicked |-> FALSE]

\* anyLacks, were only the first byte of the range looked at.
anyLacks_firstOnly(permissions, from, to, bit) ==
    from < to /\ ~HasPerm(At(permissions, from), bit)

\* perms.iter().any(|x| (x.0 & bit) == 0) over permissions[from..to)
anyLacks(permissions, from, to, bit) ==
    \E i \in from..(to - 1) : ~HasPerm(At(permissions, i), bit)

\* grantRead, were the written bytes left as they are.
grantRead_skipped(permissions, from, to) == permissions

\* perms.iter_mut().for_each(|x| x.0 |= PERM_READ) over permissions[from..to)
grantRead(permissions, from, to) ==
    LET P == Breaks(permissions) \cup {from, to}
    IN  Pack(permissions.len, P,
             [i \in Sample(permissions.len, P) |->
                 IF from <= i /\ i < to
                 THEN OrPerm(At(permissions, i), PERM_READ)
                 ELSE At(permissions, i)])

\* trackDirty, were the block logged and its bit left clear.
RECURSIVE trackDirty_noBit(_, _, _, _)
trackDirty_noBit(self, dirty_start, dirty_block, dirty_end) ==
    IF dirty_block > dirty_end
    THEN [m |-> self, panicked |-> FALSE]
    ELSE
    LET idx == dirty_start \div DBE_BITS
        bit == dirty_start % DBE_BITS
    IN  IF idx >= Len(self.dirty_bitmap)
        THEN [m |-> self, panicked |-> TRUE]
        ELSE IF bit \notin self.dirty_bitmap[idx + 1]
        THEN trackDirty_noBit([self EXCEPT !.dirty_indexes = Append(@, dirty_block)],
                              dirty_start, dirty_block + 1, dirty_end)
        ELSE trackDirty_noBit(self, dirty_start, dirty_block + 1, dirty_end)

\* The dirty-tracking loop of write, from dirty_block on.
RECURSIVE trackDirty(_, _, _, _)
trackDirty(self, dirty_start, dirty_block, dirty_end) ==
    IF dirty_block > dirty_end
    THEN [m |-> self, panicked |-> FALSE]
    ELSE
    LET idx == dirty_start \div DBE_BITS
        bit == dirty_start % DBE_BITS
    IN  IF idx >= Len(self.dirty_bitmap)
        THEN [m |-> self, panicked |-> TRUE]
        ELSE IF bit \notin self.dirty_bitmap[idx + 1]
        THEN trackDirty([self EXCEPT !.dirty_indexes = Append(@, dirty_block),
                                     !.dirty_bitmap[idx + 1] = @ \cup {bit}],
                        dirty_start, dirty_block + 1, dirty_end)
        ELSE trackDirty(self, dirty_start, dirty_block + 1, dirty_end)

\* write, were the bytes copied before the permissions are looked at.
write_copiesFirst(self, addr, buf) ==
    LET from == addr
        fail == [m |-> self, ok |-> FALSE, panicked |-> FALSE]
    IN  IF ~CheckedAddOk(addr, Len(buf)) THEN fail
        ELSE
        LET to == addr + Len(buf)
        IN  IF ~InRange(self.memory, from, to) THEN fail
            ELSE
            LET s1 == [self EXCEPT !.memory = CopyBytes(@, from, buf)]
            IN  IF anyLacks(self.permissions, from, to, PERM_WRITE)
                THEN [m |-> s1, ok |-> FALSE, panicked |-> FALSE]
                ELSE
                LET t == trackDirty(s1, addr \div DIRTY_BLOCK_SIZE,
                                    addr \div DIRTY_BLOCK_SIZE,
                                    to \div DIRTY_BLOCK_SIZE)
                IN  IF t.panicked
                    THEN [m |-> t.m, ok |-> FALSE, panicked |-> TRUE]
                    ELSE [m |-> [t.m EXCEPT !.permissions = grantRead(@, from, to)],
                          ok |-> TRUE, panicked |-> FALSE]

\* self.write(addr, buf): [m, ok, panicked]
write(self, addr, buf) ==
    LET from == addr
        fail == [m |-> self, ok |-> FALSE, panicked |-> FALSE]
    IN  IF ~CheckedAddOk(addr, Len(buf)) THEN fail
        ELSE
        LET to == addr + Len(buf)
        IN  IF ~InRange(self.permissions, from, to) THEN fail
            ELSE IF anyLacks(self.permissions, from, to, PERM_WRITE) THEN fail
            ELSE IF ~InRange(self.memory, from, to) THEN fail
            ELSE
            LET s1 == [self EXCEPT !.memory = CopyBytes(@, from, buf)]
                t  == trackDirty(s1, addr \div DIRTY_BLOCK_SIZE,
                                 addr \div DIRTY_BLOCK_SIZE,
                                 to \div DIRTY_BLOCK_SIZE)
            IN  IF t.panicked
                THEN [m |-> t.m, ok |-> FALSE, panicked |-> TRUE]
                ELSE [m |-> [t.m EXCEPT !.permissions = grantRead(@, from, to)],
                      ok |-> TRUE, panicked |-> FALSE]

\* self.read(addr, buf) for a buf of len bytes: [ok, data]
read(self, addr, len) ==
    LET from == addr
        fail == [ok |-> FALSE, data |-> <<>>]
    IN  IF ~CheckedAddOk(addr, len) THEN fail
        ELSE
        LET to == addr + len
        IN  IF ~InRange(self.permissions, from, to) THEN fail
            ELSE IF anyLacks(self.permissions, from, to, PERM_READ) THEN fail
            ELSE IF ~InRange(self.memory, from, to) THEN fail
            ELSE [ok |-> TRUE,
                  data |-> [k \in 1..len |-> At(self.memory, from + k - 1)]]

\* ------------------------------------------------------- the callers
\* The two memory spaces of tests::reset_permissions: mem is constructed,
\* new_mem is mem.fork().
Insts == {"mem", "new_mem"}

\* The sizes Mmu::new is called with: below 4096 and rejected, below 4096 and
\* accepted, one block and a part, two blocks, and 128 blocks less one byte.
Capacities == {4080, 4090, 4097, 8192, 524287}

\* The first bytes of tests::MSG.
MSG == <<84, 104, 105, 115>>

\* The arguments of the calls made on a memory space m.
AllocSizes(m) ==
    {0, 4, m.memory.len - m.alloc_base, m.memory.len - m.alloc_base + 1, -1}

SetPermCalls(m) ==
    {<<0, 8, PERM_READ + PERM_EXEC>>,
     <<DIRTY_BLOCK_SIZE - 4, 8, PERM_WRITE>>,
     <<m.memory.len, 0, PERM_WRITE>>,
     <<m.memory.len - 4, 8, PERM_WRITE>>,
     <<8, -1, PERM_WRITE>>}

WriteCalls(m) ==
    {<<0, MSG>>, <<2, MSG>>,
     <<DIRTY_BLOCK_SIZE - 2, MSG>>, <<DIRTY_BLOCK_SIZE, MSG>>,
     <<m.memory.len, <<>> >>, <<m.memory.len - 2, MSG>>, <<-1, MSG>>}

ReadCalls(m) ==
    {<<0, 4>>, <<DIRTY_BLOCK_SIZE - 2, 4>>, <<m.memory.len, 0>>,
     <<m.memory.len - 2, 4>>, <<-1, 4>>}

\* ------------------------------------------------------------- history
\* What the memory spaces cannot tell themselves, per instance:
\*   touched  the blocks whose bytes a successful write has covered since the
\*            instance was constructed, forked or last reset;
\*   allocs   the <<address, size>> of its successful allocates, in order
\*            (a fork starts with those of its source);
\*   written  a flag per byte: 1 once the byte has been the target of a
\*            successful write or has been given READ by set_permissions;
\*   granted  a flag per byte: 1 once the byte has been allocated or has been
\*            given WRITE by set_permissions, and 0 again once set_permissions
\*            has replaced its permissions by a set without WRITE;
\*   base     the memory and permissions of the source when the instance was
\*            forked (of the instance itself when it was constructed).
\* fork copies written and granted with the bytes, and reset takes them from
\* the baseline for the blocks it restores.
NoHistory(m) ==
    [touched |-> {}, allocs |-> <<>>,
     written |-> Filled(m.memory.len, 0), granted |-> Filled(m.memory.len, 0),
     base |-> [memory |-> m.memory, permissions |-> m.permissions]]

\* The blocks that meet the bytes [from, to).
BlocksOf(from, to) ==
    IF to <= from THEN {}
    ELSE (from \div DIRTY_BLOCK_SIZE)..((to - 1) \div DIRTY_BLOCK_SIZE)

\* flags with the blocks of log taken from those of the baseline.
RECURSIVE RestoreFlags(_, _, _, _)
RestoreFlags(flags, other, log, k) ==
    IF k > Len(log) THEN flags
    ELSE RestoreFlags(CopyRange(flags, other, log[k] * DIRTY_BLOCK_SIZE,
                                (log[k] + 1) * DIRTY_BLOCK_SIZE),
                      other, log, k + 1)

\* --------------------------------------------------------- state machine
VARIABLES
    capacity,   \* the size Mmu::new was called with
    mmu,        \* the live memory spaces, by name
    buf,        \* the caller's buffer: what the last successful read returned
    hist,       \* the histories of the memory spaces
    aborted,    \* the process has panicked
    nops        \* API calls made so far

vars == <<capacity, mmu, buf, hist, aborted, nops>>

Live == DOMAIN mmu

Init ==
    /\ capacity \in Capacities
    /\ IF newPanics(capacity)
       THEN /\ mmu = <<>>
            /\ hist = <<>>
            /\ aborted = TRUE
       ELSE /\ mmu = [i \in {"mem"} |-> new(capacity)]
            /\ hist = [i \in {"mem"} |-> NoHistory(new(capacity))]
            /\ aborted = FALSE
    /\ buf = <<>>
    /\ nops = 0

Call == ~aborted /\ nops < MaxOps /\ nops' = nops + 1 /\ UNCHANGED capacity

Allocate(i) ==
    /\ Call
    /\ i \in Live
    /\ \E size \in AllocSizes(mmu[i]), overflow_checks \in BOOLEAN :
          LET r == allocate(mmu[i], size, overflow_checks)
          IN  /\ mmu' = [mmu EXCEPT ![i] = r.m]
              /\ aborted' = r.panicked
              /\ hist' = IF r.ok
                         THEN [hist EXCEPT
                                 ![i].allocs = Append(@, <<r.ret, size>>),
                                 ![i].granted =
                                     FillRange(@, r.ret, r.ret + size, 1)]
                         ELSE hist
    /\ UNCHANGED buf

SetPermissions(i) ==
    /\ Call
    /\ i \in Live
    /\ \E c \in SetPermCalls(mmu[i]) :
          LET r == set_permissions(mmu[i], c[1], c[2], c[3])
          IN  /\ mmu' = [mmu EXCEPT ![i] = r.m]
              /\ hist' = IF r.ok
                         THEN [hist EXCEPT
                                 ![i].written =
                                     IF HasPerm(c[3], PERM_READ)
                                     THEN FillRange(@, c[1], c[1] + c[2], 1)
                                     ELSE @,
                                 ![i].granted =
                                     FillRange(@, c[1], c[1] + c[2],
                                               IF HasPerm(c[3], PERM_WRITE)
                                               THEN 1 ELSE 0)]
                         ELSE hist
    /\ UNCHANGED <<buf, aborted>>

Write(i) ==
    /\ Call
    /\ i \in Live
    /\ \E c \in WriteCalls(mmu[i]) :
          LET r == write(mmu[i], c[1], c[2])
          IN  /\ mmu' = [mmu EXCEPT ![i] = r.m]
              /\ aborted' = r.panicked
              /\ hist' = IF r.ok
                         THEN [hist EXCEPT
                                 ![i].touched =
                                     @ \cup BlocksOf(c[1], c[1] + Len(c[2])),
                                 ![i].written =
                                     FillRange(@, c[1], c[1] + Len(c[2]), 1)]
                         ELSE hist
    /\ UNCHANGED buf

Read(i) ==
    /\ Call
    /\ i \in Live
    /\ \E c \in ReadCalls(mmu[i]) :
          LET r == read(mmu[i], c[1], c[2])
          IN  buf' = IF r.ok THEN r.data ELSE buf
    /\ UNCHANGED <<mmu, hist, aborted>>

Fork ==
    /\ Call
    /\ "mem" \in Live
    /\ mmu' = [i \in {"mem", "new_mem"} |->
                 IF i = "mem" THEN mmu["mem"] ELSE fork(mmu["mem"])]
    /\ hist' = [i \in {"mem", "new_mem"} |->
                 IF i = "mem" THEN hist["mem"]
                 ELSE [hist["mem"] EXCEPT
                         !.touched = {},
                         !.base = [memory |-> mmu["mem"].memory,
                                   permissions |-> mmu["mem"].permissions]]]
    /\ UNCHANGED <<buf, aborted>>

Reset(i, j) ==
    /\ Call
    /\ i \in Live /\ j \in Live /\ i # j
    /\ LET r   == reset(mmu[i], mmu[j])
           log == mmu[i].dirty_indexes
       IN  /\ mmu' = [mmu EXCEPT ![i] = r.m]
           /\ aborted' = r.panicked
           /\ hist' = IF r.panicked THEN hist
                      ELSE [hist EXCEPT
                              ![i].touched = {},
                              ![i].written =
                                  RestoreFlags(@, hist[j].written, log, 1),
                              ![i].granted =
                                  RestoreFlags(@, hist[j].granted, log, 1)]
    /\ UNCHANGED buf

Next ==
    \/ \E i \in Insts : Allocate(i)
    \/ \E i \in Insts : SetPermissions(i)
    \/ \E i \in Insts : Write(i)
    \/ \E i \in Insts : Read(i)
    \/ Fork
    \/ \E i \in Insts, j \in Insts : Reset(i, j)

Spec == Init /\ [][Next]_vars

\* --------------------------------------------------------------- claims
\* The set of the block indices in the dirty log of m.
Logged(m) == {m.dirty_indexes[k] : k \in 1..Len(m.dirty_indexes)}

\* The elements of b[from..to), as a buffer of the same length that is zero
\* elsewhere: two buffers agree on [from, to) iff their windows are equal.
Window(b, from, to) ==
    LET P == Breaks(b) \cup {from, to}
    IN  Pack(b.len, P,
             [i \in Sample(b.len, P) |->
                 IF from <= i /\ i < to THEN At(b, i) ELSE 0])

\* x and y hold the same data bytes and permission bytes in block b.
SameBlock(x, y, b) ==
    LET from == b * DIRTY_BLOCK_SIZE
        to   == (b + 1) * DIRTY_BLOCK_SIZE
    IN  /\ Window(x.memory, from, to) = Window(y.memory, from, to)
        /\ Window(x.permissions, from, to) = Window(y.permissions, from, to)

\* mem has not been mutated since new_mem was forked from it.
BaselineUnchanged ==
    /\ mmu["mem"].memory = hist["new_mem"].base.memory
    /\ mmu["mem"].permissions = hist["new_mem"].base.permissions

\* C1: for new_mem forked from mem, with mem not mutated since, a reset of
\* new_mem against mem leaves every block that a successful write on new_mem
\* has touched since the fork or the last reset with the data bytes and the
\* permission bytes of mem.
C1_ResetRestoresTouched ==
    ("new_mem" \in Live /\ BaselineUnchanged) =>
        LET r == reset(mmu["new_mem"], mmu["mem"])
        IN  ~r.panicked =>
                \A b \in hist["new_mem"].touched : SameBlock(r.m, mmu["mem"], b)

\* C2: the block indices in the dirty log of an instance are exactly the
\* blocks that meet the byte range of a successful write made since the
\* instance was constructed, forked or last reset.
C2_LogIsTouched ==
    \A i \in Live : Logged(mmu[i]) = hist[i].touched

\* C3: a successful write(addr, bytes) is followed by a successful
\* read(addr, len(bytes)) that returns bytes.
C3_WriteReadRoundTrip ==
    \A i \in Live : \A c \in WriteCalls(mmu[i]) :
        LET w == write(mmu[i], c[1], c[2])
        IN  w.ok => read(w.m, c[1], Len(c[2])) = [ok |-> TRUE, data |-> c[2]]

\* A write has been made and a read has returned its bytes.
C3_Witness ==
    /\ buf = MSG
    /\ \E i \in Live : hist[i].touched # {} /\ read(mmu[i], 0, 4).data = MSG

\* The positions of [from, to) that stand for all of them: bufs are constant
\* from each of these positions up to the next.
Points(bufs, from, to) ==
    {p \in {from} \cup UNION {Breaks(b) : b \in bufs} : from <= p /\ p < to}

\* C4: a read whose range holds a byte that was never written and never given
\* READ by set_permissions fails and returns no data, and after allocate(n) a
\* read of any byte of the returned region fails.
C4_UninitializedReadFaults ==
    \A i \in Live :
        LET m == mmu[i]
            h == hist[i]
        IN  /\ \A c \in ReadCalls(m) :
                  (\E k \in c[1]..(c[1] + c[2] - 1) : At(h.written, k) = 0)
                      => read(m, c[1], c[2]) = [ok |-> FALSE, data |-> <<>>]
            /\ \A k \in Points({h.written, m.permissions}, 0, m.memory.len) :
                  At(h.written, k) = 0 => ~read(m, k, 1).ok
            /\ \A size \in AllocSizes(m), overflow_checks \in BOOLEAN :
                  LET r == allocate(m, size, overflow_checks)
                  IN  r.ok =>
                          \A k \in Points({r.m.permissions}, r.ret, r.ret + size) :
                              ~read(r.m, k, 1).ok

\* An instance has allocated a region and written elsewhere, and the last
\* byte of the region is still unwritten and unreadable.
C4_Witness ==
    \E i \in Live :
        /\ hist[i].touched # {}
        /\ Len(hist[i].allocs) > 0
        /\ LET a == hist[i].allocs[1]
           IN  /\ a[2] > 0
               /\ At(hist[i].written, a[1] + a[2] - 1) = 0
               /\ ~read(mmu[i], a[1] + a[2] - 1, 1).ok

\* C5: a write fails when its range holds a byte that was never allocated nor
\* given WRITE by set_permissions, or whose permissions set_permissions has
\* since replaced by a set without WRITE, and when its range is not inside
\* the buffer.
C5_WriteFaults ==
    \A i \in Live :
        LET m == mmu[i]
            h == hist[i]
        IN  \A c \in WriteCalls(m) :
                LET from == c[1]
                    to   == c[1] + Len(c[2])
                IN  (\/ from < 0
                     \/ to > m.memory.len
                     \/ \E k \in from..(to - 1) : At(h.granted, k) = 0)
                        => ~write(m, c[1], c[2]).ok

\* A byte was allocated, written, and then made read-only by
\* set_permissions: it is readable and a write to it fails.
C5_Witness ==
    \E i \in Live :
        /\ Len(hist[i].allocs) > 0
        /\ hist[i].allocs[1][2] > 0
        /\ At(hist[i].written, 0) = 1
        /\ At(hist[i].granted, 0) = 0
        /\ HasPerm(At(mmu[i].permissions, 0), PERM_READ)
        /\ ~write(mmu[i], 0, MSG).ok

\* f is what the claim says a fork of m is.
ForkOf(f, m) ==
    /\ f.memory = m.memory
    /\ f.permissions = m.permissions
    /\ f.alloc_base = m.alloc_base
    /\ f.dirty_indexes = <<>>
    /\ Len(f.dirty_bitmap) = Len(m.dirty_bitmap)
    /\ \A w \in 1..Len(f.dirty_bitmap) : f.dirty_bitmap[w] = {}

\* C6: fork returns an instance with the data, permissions and allocation
\* cursor of its source and an empty dirty bitmap and log, whatever the dirty
\* state of the source; the fork leaves the source unchanged, and a call that
\* changes one instance leaves the other unchanged.
C6_ForkIndependent ==
    [][/\ \A i \in Live : ForkOf(fork(mmu[i]), mmu[i])
       /\ \A i \in DOMAIN mmu' : ForkOf(fork(mmu'[i]), mmu'[i])
       /\ \A i \in DOMAIN mmu' :
             i \notin Live =>
                 /\ ForkOf(mmu'[i], mmu["mem"])
                 /\ mmu'["mem"] = mmu["mem"]
       /\ \A i \in Live :
             mmu'[i] # mmu[i] =>
                 \A j \in Live \ {i} : mmu'[j] = mmu[j]]_vars

\* new_mem was forked from a mem with a non-empty dirty log and has since
\* been written, and mem is as it was at the fork.
C6_Witness ==
    /\ "new_mem" \in Live
    /\ BaselineUnchanged
    /\ mmu["mem"].dirty_indexes # <<>>
    /\ mmu["new_mem"].memory # mmu["mem"].memory
    /\ mmu["new_mem"].dirty_indexes # <<>>

\* buf with the blocks of blocks zeroed: two buffers agree outside these
\* blocks iff these are equal.
Outside(b, blocks) ==
    LET P == Breaks(b) \cup {k * DIRTY_BLOCK_SIZE : k \in blocks}
                       \cup {(k + 1) * DIRTY_BLOCK_SIZE : k \in blocks}
    IN  Pack(b.len, P,
             [i \in Sample(b.len, P) |->
                 IF (i \div DIRTY_BLOCK_SIZE) \in blocks THEN 0 ELSE At(b, i)])

\* C7: a reset leaves the allocation cursor and the data and permissions of
\* every block that is not in the dirty log unchanged, and a reset of a fresh
\* fork against its source changes nothing: the fork still holds the data and
\* permissions of the source.
C7_ResetFrame ==
    /\ \A i \in Live, j \in Live :
          i # j =>
              LET m == mmu[i]
                  r == reset(m, mmu[j])
              IN  ~r.panicked =>
                      /\ r.m.alloc_base = m.alloc_base
                      /\ Outside(r.m.memory, Logged(m))
                             = Outside(m.memory, Logged(m))
                      /\ Outside(r.m.permissions, Logged(m))
                             = Outside(m.permissions, Logged(m))
    /\ \A i \in Live :
          LET f == fork(mmu[i])
              r == reset(f, mmu[i])
          IN  /\ ~r.panicked
              /\ r.m = f
              /\ r.m.memory = mmu[i].memory
              /\ r.m.permissions = mmu[i].permissions

\* new_mem has a logged block that a reset against mem reverts, data in a
\* block that is not logged, and an allocation cursor of its own.
C7_Witness ==
    /\ "new_mem" \in Live
    /\ LET m == mmu["new_mem"]
           r == reset(m, mmu["mem"])
       IN  /\ m.dirty_indexes # <<>>
           /\ ~r.panicked
           /\ r.m.memory # m.memory
           /\ Outside(m.memory, Logged(m)).runs # {}
           /\ m.alloc_base # mmu["mem"].alloc_base

\* C8: every successful allocate returns a range inside the buffer, and no
\* two ranges returned on one instance overlap.
C8_AllocationsDisjoint ==
    \A i \in Live :
        LET a == hist[i].allocs
        IN  /\ \A k \in 1..Len(a) :
                  /\ 0 <= a[k][1]
                  /\ 0 <= a[k][2]
                  /\ a[k][1] + a[k][2] <= mmu[i].memory.len
            /\ \A k \in 1..Len(a), l \in 1..Len(a) :
                  k < l => \/ a[k][1] + a[k][2] <= a[l][1]
                           \/ a[l][1] + a[l][2] <= a[k][1]

\* An instance has made two allocations of at least one byte.
C8_Witness ==
    \E i \in Live :
        /\ Len(hist[i].allocs) >= 2
        /\ hist[i].allocs[1][2] > 0
        /\ hist[i].allocs[2][2] > 0

\* size rounded up to a multiple of 16, for a size that is not within 16 of
\* the top of the word.
RoundUp16(size) == ((size + 15) \div 16) * 16

\* C9: allocate(size) fails exactly when the cursor plus size rounded up to a
\* multiple of 16 exceeds the buffer length, and a failing allocate returns a
\* failure and leaves the instance unchanged.
C9_AllocateFailsWhenFull ==
    \A i \in Live :
        \A size \in AllocSizes(mmu[i]), overflow_checks \in BOOLEAN :
            LET m    == mmu[i]
                r    == allocate(m, size, overflow_checks)
                full == \/ size < 0
                        \/ m.alloc_base + RoundUp16(size) > m.memory.len
            IN  IF full
                THEN ~r.panicked /\ ~r.ok /\ r.m = m
                ELSE ~r.panicked /\ r.ok

\* C10: in every reachable state and for every argument, read, write,
\* allocate and set_permissions return a result and do not abort the
\* process.  (read and set_permissions have no panicking path.)
C10_NoAbort ==
    \A i \in Live :
        /\ \A size \in AllocSizes(mmu[i]), overflow_checks \in BOOLEAN :
              ~allocate(mmu[i], size, overflow_checks).panicked
        /\ \A c \in WriteCalls(mmu[i]) : ~write(mmu[i], c[1], c[2]).panicked
        /\ \A c \in ReadCalls(mmu[i]) : read(mmu[i], c[1], c[2]).ok \in BOOLEAN
        /\ \A c \in SetPermCalls(mmu[i]) :
              set_permissions(mmu[i], c[1], c[2], c[3]).ok \in BOOLEAN

\* The value a call of write, read or set_permissions returns: an Option<()>.
Returned(ok) == IF ok THEN "Some(())" ELSE "None"

\* The bytes [addr, addr + n) are not all inside the buffer of m.
OutOfBounds(m, addr, n) == addr < 0 \/ addr + n > m.memory.len

\* The bytes [addr, addr + n) are inside the buffer of m and one of them
\* lacks the permission bit.
PermissionFault(m, addr, n, bit) ==
    /\ ~OutOfBounds(m, addr, n)
    /\ \E k \in addr..(addr + n - 1) : ~HasPerm(At(m.permissions, k), bit)

\* C11: the result write (read) returns for a range in which a byte lacks
\* WRITE (READ) differs from the result it returns for a range that is out of
\* bounds or overflows.
C11_FaultsDistinguishable ==
    \A i \in Live :
        LET m == mmu[i]
        IN  /\ \A c \in WriteCalls(m), d \in WriteCalls(m) :
                  (/\ PermissionFault(m, c[1], Len(c[2]), PERM_WRITE)
                   /\ OutOfBounds(m, d[1], Len(d[2])))
                      => Returned(write(m, c[1], c[2]).ok)
                             # Returned(write(m, d[1], d[2]).ok)
            /\ \A c \in ReadCalls(m), d \in ReadCalls(m) :
                  (/\ PermissionFault(m, c[1], c[2], PERM_READ)
                   /\ OutOfBounds(m, d[1], d[2]))
                      => Returned(read(m, c[1], c[2]).ok)
                             # Returned(read(m, d[1], d[2]).ok)

\* size rounded up to a multiple of the dirty-block size.
RoundUpBlock(size) ==
    ((size + DIRTY_BLOCK_SIZE - 1) \div DIRTY_BLOCK_SIZE) * DIRTY_BLOCK_SIZE

\* C12: the data buffer and the permission buffer of an instance have the
\* same length, which is the requested capacity rounded up to a multiple of
\* the dirty-block size at every time.
C12_WholeBlocks ==
    \A i \in Live :
        /\ mmu[i].memory.len = mmu[i].permissions.len
        /\ mmu[i].memory.len = RoundUpBlock(capacity)
        /\ mmu[i].memory.len % DIRTY_BLOCK_SIZE = 0

\* The sizes around one dirty block that the construction check is tried on.
ProbeSizes == (DIRTY_BLOCK_SIZE - 40)..(DIRTY_BLOCK_SIZE + 40)

Marked(m) ==
    UNION {{(w - 1) * DBE_BITS + b : b \in m.dirty_bitmap[w]} :
              w \in 1..Len(m.dirty_bitmap)}

\* C14: in every state of an instance the blocks whose bit is set in the
\* dirty bitmap are the blocks in the dirty log, and no block is in the log
\* twice.
C14_BitmapMatchesLog ==
    ~aborted =>
        \A i \in Live :
            LET log == mmu[i].dirty_indexes
            IN  /\ Marked(mmu[i]) = Logged(mmu[i])
                /\ \A k, l \in 1..Len(log) : k # l => log[k] # log[l]

\* Two writes have gone to block 0 of an instance since its log was last
\* empty, and the log holds the block once.
C14_Witness ==
    \E i \in Live :
        /\ mmu[i].dirty_indexes = <<0>>
        /\ Marked(mmu[i]) = {0}
        /\ At(mmu[i].memory, 0) = MSG[1]
        /\ At(mmu[i].memory, 5) = MSG[4]

\* The sum of the sizes of the first k allocations of a, each rounded up to a
\* multiple of 16.
RECURSIVE Advanced(_, _)
Advanced(a, k) == IF k = 0 THEN 0 ELSE Advanced(a, k - 1) + RoundUp16(a[k][2])

\* C15: the allocation base of an instance is never above the buffer length,
\* no operation lowers it, and no operation but a successful allocate changes
\* it: at every time it is the sum of what the successful allocates on the
\* instance (and, for a fork, on its source before the fork) have added, and
\* an allocate that fails adds nothing.
C15_CursorMonotone ==
    \A i \in Live :
        LET m == mmu[i]
            a == hist[i].allocs
        IN  /\ 0 <= m.alloc_base
            /\ m.alloc_base <= m.memory.len
            /\ \A k \in 1..Len(a) : a[k][2] >= 0
            /\ m.alloc_base = Advanced(a, Len(a))
            /\ \A size \in AllocSizes(m), overflow_checks \in BOOLEAN :
                  LET r == allocate(m, size, overflow_checks)
                  IN  /\ r.m.alloc_base >= m.alloc_base
                      /\ r.m.alloc_base <= r.m.memory.len
                      /\ r.m.memory.len = m.memory.len
                      /\ ~r.ok => r.m.alloc_base = m.alloc_base

\* Two allocations have moved the base of an instance to the end of its
\* buffer, where a further allocation of four bytes fails.
C15_Witness ==
    \E i \in Live :
        /\ Len(hist[i].allocs) >= 2
        /\ hist[i].allocs[1][2] > 0
        /\ mmu[i].alloc_base = mmu[i].memory.len
        /\ ~allocate(mmu[i], 4, FALSE).ok

\* C16: an address that a successful allocate has returned is at least 0 and
\* below the allocation base from the end of that allocate on, and no two
\* successful allocates on one instance return the same address.
C16_AddressesFresh ==
    \A i \in Live :
        LET m == mmu[i]
            a == hist[i].allocs
        IN  /\ \A k \in 1..Len(a) : 0 <= a[k][1] /\ a[k][1] < m.alloc_base
            /\ \A k \in 1..Len(a), l \in 1..Len(a) : k < l => a[k][1] # a[l][1]
            /\ \A size \in AllocSizes(m), overflow_checks \in BOOLEAN :
                  LET r == allocate(m, size, overflow_checks)
                  IN  r.ok => 0 <= r.ret /\ r.ret < r.m.alloc_base

\* C17: a successful allocate(size) returns the allocation base c it found,
\* moves the base to c plus size rounded up to a multiple of 16, leaves WRITE
\* and nothing else on every byte of [c, c + size), and leaves the
\* permissions of every other byte, the lengths, the data, the dirty bitmap
\* and the dirty log as they were.
C17_AllocateEffect ==
    \A i \in Live :
        \A size \in AllocSizes(mmu[i]), overflow_checks \in BOOLEAN :
            LET m == mmu[i]
                r == allocate(m, size, overflow_checks)
                c == m.alloc_base
                len == m.permissions.len
            IN  r.ok =>
                  /\ r.ret = c
                  /\ r.m.alloc_base = c + RoundUp16(size)
                  /\ r.m.permissions.len = len
                  /\ \A p \in Points({m.permissions, r.m.permissions}, 0, len)
                                \cup ({c, c + size} \cap (0..(len - 1))) :
                        At(r.m.permissions, p) =
                            IF c <= p /\ p < c + size
                            THEN PERM_WRITE
                            ELSE At(m.permissions, p)
                  /\ r.m.memory = m.memory
                  /\ r.m.dirty_bitmap = m.dirty_bitmap
                  /\ r.m.dirty_indexes = m.dirty_indexes

\* An instance whose first eight bytes had been given READ and EXEC has made
\* its first allocation, of four bytes: they hold WRITE alone, and the
\* padding behind them holds what it held.
C17_Witness ==
    \E i \in Live :
        /\ hist[i].allocs = <<(<<0, 4>>)>>
        /\ mmu[i].alloc_base = 16
        /\ At(mmu[i].permissions, 0) = PERM_WRITE
        /\ At(mmu[i].permissions, 3) = PERM_WRITE
        /\ At(mmu[i].permissions, 4) = PERM_READ + PERM_EXEC
        /\ At(mmu[i].permissions, 8) = 0

\* C18: a reset that returns leaves the dirty log empty and every bit of the
\* dirty bitmap clear.
C18_ResetClearsDirty ==
    \A i \in Live, j \in Live :
        i # j =>
            LET r == reset(mmu[i], mmu[j])
            IN  ~r.panicked =>
                  /\ r.m.dirty_indexes = <<>>
                  /\ Len(r.m.dirty_bitmap) = Len(mmu[i].dirty_bitmap)
                  /\ \A w \in 1..Len(r.m.dirty_bitmap) : r.m.dirty_bitmap[w] = {}

\* An instance with a block in its log and the block's bit set is reset, and
\* the reset restores bytes of it.
C18_Witness ==
    \E i \in Live, j \in Live :
        /\ i # j
        /\ mmu[i].dirty_indexes # <<>>
        /\ Marked(mmu[i]) # {}
        /\ ~reset(mmu[i], mmu[j]).panicked
        /\ reset(mmu[i], mmu[j]).m.memory # mmu[i].memory

\* C19: a write or a set_permissions that does not return success leaves the
\* data, the permissions, the allocation base, the dirty bitmap and the dirty
\* log of the instance as they were.
C19_FailureChangesNothing ==
    \A i \in Live :
        LET m == mmu[i]
        IN  /\ \A c \in WriteCalls(m) :
                  LET r == write(m, c[1], c[2]) IN ~r.ok => r.m = m
            /\ \A c \in SetPermCalls(m) :
                  LET r == set_permissions(m, c[1], c[2], c[3])
                  IN  ~r.ok => r.m = m

\* A write of four bytes fails on an instance that holds written data: the
\* first two bytes of its range are writable and the third is not.
C19_Witness ==
    \E i \in Live :
        /\ HasPerm(At(mmu[i].permissions, 2), PERM_WRITE)
        /\ HasPerm(At(mmu[i].permissions, 3), PERM_WRITE)
        /\ ~HasPerm(At(mmu[i].permissions, 4), PERM_WRITE)
        /\ At(mmu[i].memory, 2) = MSG[3]
        /\ ~write(mmu[i], 2, MSG).ok
        /\ mmu[i].dirty_indexes # <<>>

\* C20: every block in the dirty log of an instance lies whole inside the
\* buffer, and a reset against an instance of the same capacity returns.
C20_LoggedBlocksInRange ==
    \A i \in Live :
        /\ \A idx \in Logged(mmu[i]) :
              (idx + 1) * DIRTY_BLOCK_SIZE <= mmu[i].memory.len
        /\ \A j \in Live : i # j => ~reset(mmu[i], mmu[j]).panicked

=============================================================================
